---- MODULE Spec2Model ----
(***************************************************************************)
(* Model of three asynchronous operations of the orbit SDK:                *)
(*   createRollupPrepareTransactionRequest  (buildDeploymentTransaction)   *)
(*   createRollupFetchTransactionHash  (resolveDeploymentTransactionHash)  *)
(*   waitForRetryables                      (trackRetryables)              *)
(* Every operation is an async function: one action per synchronous        *)
(* segment between two awaits, the awaited collaborator (RPC client,       *)
(* token contract, cross-chain message reader) answering in between.       *)
(***************************************************************************)
EXTENDS Integers, Sequences, FiniteSets, TLC

VARIABLES
  op,             \* the operation called: "none", "build", "resolve", "track"
  pc,             \* where the operation is suspended: "idle", "await...", "done"
  outcome,        \* "pending", "ok", or the error the operation failed with
  \* createRollupPrepareTransactionRequest
  args,           \* params, publicClient's chain and gasOverrides
  decimalsReads,  \* number of fetchDecimals calls issued
  decimals,       \* what fetchDecimals resolved with, if it has
  prepareCalls,   \* number of prepareTransactionRequest calls issued
  prepareGasArg,  \* the gas field given to prepareTransactionRequest
  prepared,       \* the request prepareTransactionRequest resolved with, if it has
  request,        \* the returned transaction request
  \* createRollupFetchTransactionHash
  resolveArgs,    \* rollup and publicClient's chain
  logsQuery,      \* the getLogs query issued, if one was
  logs,           \* what getLogs resolved with
  txHash,         \* the returned transaction hash
  \* waitForRetryables
  messages,       \* what getL1ToL2Messages resolved with, if it has
  waits,          \* the waitForStatus promise of each message
  checksRun,      \* the code after the Promise.all has run
  receipts        \* the returned receipts

buildVars == <<args, decimalsReads, decimals, prepareCalls, prepareGasArg, prepared, request>>
resolveVars == <<resolveArgs, logsQuery, logs, txHash>>
trackVars == <<messages, waits, checksRun, receipts>>
vars == <<op, pc, outcome, buildVars, resolveVars, trackVars>>

----------------------------------------------------------------------------
(* Bounds of the model *)

MaxValidators == 2
MaxGas == 2
MaxPercent == 2
MaxEvents == 2
MaxTickets == 2

----------------------------------------------------------------------------
(* Values *)

\* an optional value (undefined | v) is the sequence <<>> or <<v>>
None == <<>>
Some(v) == <<v>>
IsSome(o) == o # <<>>
Get(o) == o[1]

zeroAddress == "0x0000000000000000000000000000000000000000"

Addresses == {zeroAddress, "0xA1"}
FeeTokens == {zeroAddress, "0xFEE"}
Rollups == {"0xR1", "0xR2"}

RECURSIVE SeqsUpTo(_, _)
SeqsUpTo(S, n) ==
  IF n = 0 THEN {<<>>}
  ELSE LET shorter == SeqsUpTo(S, n - 1)
       IN shorter \cup {Append(s, x) : s \in {t \in shorter : Len(t) = n - 1}, x \in S}

ValidatorLists == SeqsUpTo(Addresses, MaxValidators)

GasAmounts == {7 * g : g \in 0..MaxGas}
Percents == {15 * p : p \in 0..MaxPercent}
DecimalsValues == {17, 18, 19}

\* the chainConfig field is a JSON-encoded string
AnyTrustJson == "{\"arbitrum\":{\"DataAvailabilityCommittee\":true}}"
RollupJson == "{\"arbitrum\":{\"DataAvailabilityCommittee\":false}}"
MalformedJson == "{\"arbitrum\":"
ChainConfigStrings == {AnyTrustJson, RollupJson, MalformedJson}

\* JSON.parse: the parsed object, or None when it throws SyntaxError
JSONParse(s) ==
  CASE s = AnyTrustJson -> Some([arbitrum |-> [DataAvailabilityCommittee |-> TRUE]])
    [] s = RollupJson -> Some([arbitrum |-> [DataAvailabilityCommittee |-> FALSE]])
    [] OTHER -> None

\* gasOverrides?: { gasLimit?: { base?: bigint, percentIncrease: bigint } }
GasLimitOverrides == [base : {None} \cup {Some(g) : g \in GasAmounts}, percentIncrease : Percents]
GasOverridesValues ==
  {None} \cup {Some([gasLimit |-> gl]) : gl \in {None} \cup {Some(g) : g \in GasLimitOverrides}}

----------------------------------------------------------------------------
(* Networks *)

\* chain ids with a tabulated earliest deployment block
TabulatedNetworks ==
  {"mainnet", "arbitrumOne", "arbitrumNova", "sepolia", "holesky", "arbitrumSepolia",
   "nitroTestnodeL1", "nitroTestnodeL2"}

earliestRollupCreatorDeploymentBlockNumber ==
  [n \in TabulatedNetworks |->
     CASE n = "mainnet" -> 18736164
       [] n = "arbitrumOne" -> 150599584
       [] n = "arbitrumNova" -> 47798739
       [] n = "sepolia" -> 4741823
       [] n = "holesky" -> 1083992
       [] n = "arbitrumSepolia" -> 654628
       [] n = "nitroTestnodeL1" -> 0
       [] n = "nitroTestnodeL2" -> 0]

\* the allow-list of parent chains: the tabulated ones and one registered
\* parent chain without a tabulated block
SupportedNetworks == TabulatedNetworks \cup {"customParent"}
Networks == SupportedNetworks \cup {"unsupported"}

\* validateParentChain: the chain id, or None when it throws
validateParentChain(chain) == IF chain \in SupportedNetworks THEN Some(chain) ELSE None

----------------------------------------------------------------------------
(* createRollupPrepareTransactionRequest *)

BuildArgs ==
  [chain : Networks,
   batchPoster : Addresses,
   validators : ValidatorLists,
   nativeToken : FeeTokens,
   chainConfig : ChainConfigStrings,
   gasOverrides : GasOverridesValues]

NoArgs ==
  [chain |-> "unsupported", batchPoster |-> zeroAddress, validators |-> <<>>,
   nativeToken |-> zeroAddress, chainConfig |-> MalformedJson, gasOverrides |-> None]

Includes(s, x) == \E i \in 1..Len(s) : s[i] = x

isCustomFeeTokenAddress(token) == token # zeroAddress

isAnyTrustChainConfig(chainConfig) == chainConfig.arbitrum.DataAvailabilityCommittee

BatchPosterInvalid(a) == a.batchPoster = zeroAddress

\* only the first validator is compared with the zero address
ValidatorsInvalid_FirstOnly(a) == Len(a.validators) = 0 \/ a.validators[1] = zeroAddress

ValidatorsInvalid(a) == Len(a.validators) = 0 \/ Includes(a.validators, zeroAddress)

FeeTokenDisallowed(a) ==
  isCustomFeeTokenAddress(a.nativeToken) /\ ~isAnyTrustChainConfig(Get(JSONParse(a.chainConfig)))

\* the validator check made before the batch-poster check
EagerValidation_ValidatorsFirst(a) ==
  IF ~IsSome(validateParentChain(a.chain)) THEN "UnsupportedParentChain"
  ELSE IF Len(a.validators) = 0 \/ Includes(a.validators, zeroAddress) THEN "InvalidValidatorSet"
  ELSE IF a.batchPoster = zeroAddress THEN "InvalidBatchPoster"
  ELSE IF ~IsSome(JSONParse(a.chainConfig)) THEN "SyntaxError"
  ELSE IF isCustomFeeTokenAddress(a.nativeToken)
          /\ ~isAnyTrustChainConfig(Get(JSONParse(a.chainConfig))) THEN "FeeTokenNotSupported"
  ELSE ""

\* the checks made before the first await, in the order of the code: the
\* error thrown, or "" when none is
EagerValidation(a) ==
  IF ~IsSome(validateParentChain(a.chain)) THEN "UnsupportedParentChain"
  ELSE IF BatchPosterInvalid(a) THEN "InvalidBatchPoster"
  ELSE IF ValidatorsInvalid(a) THEN "InvalidValidatorSet"
  ELSE IF ~IsSome(JSONParse(a.chainConfig)) THEN "SyntaxError"
  ELSE IF FeeTokenDisallowed(a) THEN "FeeTokenNotSupported"
  ELSE ""

\* the decimals are read whatever the fee token is
ShouldFetchDecimals_Always(a) == TRUE

ShouldFetchDecimals(a) == isCustomFeeTokenAddress(a.nativeToken)

\* more than 18 decimals are accepted
DecimalsSupported_AtLeast(d) == d >= 18

DecimalsSupported(d) == d = 18

\* the base gas-limit override, when one was given
BaseOverride(go) ==
  IF IsSome(go) /\ IsSome(Get(go).gasLimit) THEN Get(Get(go).gasLimit).base ELSE None

\* a truthiness test of the base: a base of 0n counts as not given
GasArgument_Truthy(go) ==
  IF IsSome(BaseOverride(go)) /\ Get(BaseOverride(go)) # 0 THEN Some(0) ELSE None

\* gas: typeof gasOverrides?.gasLimit?.base !== 'undefined' ? 0n : undefined
GasArgument(go) == IF IsSome(BaseOverride(go)) THEN Some(0) ELSE None

GasLimitRequested(go) == IsSome(go) /\ IsSome(Get(go).gasLimit)

\* a missing estimate defaults to 0n
GasBase_DefaultZero(go, requestGas) ==
  IF IsSome(BaseOverride(go)) THEN BaseOverride(go)
  ELSE IF IsSome(requestGas) THEN requestGas ELSE Some(0)

\* gasOverrides.gasLimit.base ?? request.gas!
GasBase(go, requestGas) == IF IsSome(BaseOverride(go)) THEN BaseOverride(go) ELSE requestGas

applyPercentIncrease(base, percentIncrease) == base + ((base * percentIncrease) \div 100)

\* lines 167-179: the request is issued to the RPC client
IssuePrepare(a) ==
  /\ prepareCalls' = prepareCalls + 1
  /\ prepareGasArg' = GasArgument(a.gasOverrides)
  /\ pc' = "awaitPrepare"
  /\ UNCHANGED <<outcome, request>>

Fail(e) == pc' = "done" /\ outcome' = e

\* the call, up to its first await
BuildStart(a) ==
  /\ pc = "idle"
  /\ op' = "build"
  /\ args' = a
  /\ IF EagerValidation(a) # ""
       THEN Fail(EagerValidation(a)) /\ UNCHANGED <<decimalsReads, prepareCalls, prepareGasArg, request>>
     ELSE IF ShouldFetchDecimals(a)
       THEN /\ decimalsReads' = decimalsReads + 1
            /\ pc' = "awaitDecimals"
            /\ UNCHANGED <<outcome, prepareCalls, prepareGasArg, request>>
     ELSE IssuePrepare(a) /\ UNCHANGED decimalsReads
  /\ UNCHANGED <<decimals, prepared, resolveVars, trackVars>>

\* fetchDecimals resolves with d
DecimalsReturn(d) ==
  /\ pc = "awaitDecimals"
  /\ decimals' = Some(d)
  /\ IF ~DecimalsSupported(d)
       THEN Fail("UnsupportedFeeTokenDecimals") /\ UNCHANGED <<prepareCalls, prepareGasArg, request>>
       ELSE IssuePrepare(args)
  /\ UNCHANGED <<op, args, decimalsReads, prepared, resolveVars, trackVars>>

\* prepareTransactionRequest resolves with a request whose gas is requestGas.
\* The RPC client is a collaborator: whatever gas it was given, the gas of its
\* answer is left open (the gas given, an estimate, or none)
PrepareReturn(requestGas) ==
  /\ pc = "awaitPrepare"
  /\ prepared' = Some([gas |-> requestGas])
  /\ LET go == args.gasOverrides
         chainId == Get(validateParentChain(args.chain))
     IN IF GasLimitRequested(go)
          THEN IF IsSome(GasBase(go, requestGas))
                 THEN /\ request' = Some([gas |-> Some(applyPercentIncrease(
                                                       Get(GasBase(go, requestGas)),
                                                       Get(Get(go).gasLimit).percentIncrease)),
                                          chainId |-> chainId])
                      /\ pc' = "done" /\ outcome' = "ok"
                 ELSE Fail("MissingGasBase") /\ UNCHANGED request
          ELSE /\ request' = Some([gas |-> requestGas, chainId |-> chainId])
               /\ pc' = "done" /\ outcome' = "ok"
  /\ UNCHANGED <<op, args, decimalsReads, decimals, prepareCalls, prepareGasArg, resolveVars, trackVars>>

----------------------------------------------------------------------------
(* createRollupFetchTransactionHash *)

ResolveArgs == [rollup : Rollups, chain : Networks]

TransactionHashes == {"0xT1", "0xT2"}

\* a log entry: its transactionHash may be absent (null)
LogEntries == [transactionHash : {None} \cup {Some(h) : h \in TransactionHashes}]

LogLists == SeqsUpTo(LogEntries, MaxEvents)

\* a block number or a block tag ('earliest', 'latest')
BlockNumber(n) == [tag |-> "number", number |-> n]
BlockTag(t) == [tag |-> t, number |-> 0]

\* a truthiness test of the table entry: a tabulated block 0n counts as absent
FromBlock_Truthy(chainId) ==
  IF chainId \in DOMAIN earliestRollupCreatorDeploymentBlockNumber
     /\ earliestRollupCreatorDeploymentBlockNumber[chainId] # 0
    THEN BlockNumber(earliestRollupCreatorDeploymentBlockNumber[chainId])
    ELSE BlockTag("earliest")

\* chainId in earliestRollupCreatorDeploymentBlockNumber ? ...[chainId] : 'earliest'
FromBlock(chainId) ==
  IF chainId \in DOMAIN earliestRollupCreatorDeploymentBlockNumber
    THEN BlockNumber(earliestRollupCreatorDeploymentBlockNumber[chainId])
    ELSE BlockTag("earliest")

LogsQuery(rollup, chainId) ==
  [address |-> rollup, event |-> "RollupInitialized",
   fromBlock |-> FromBlock(chainId), toBlock |-> BlockTag("latest")]

\* only an empty result is refused: the first of several events is taken
EventCountUnexpected_Empty(events) == Len(events) = 0

EventCountUnexpected(events) == Len(events) # 1

\* the call, up to its await of getLogs
ResolveStart(a) ==
  /\ pc = "idle"
  /\ op' = "resolve"
  /\ resolveArgs' = Some(a)
  /\ IF ~IsSome(validateParentChain(a.chain))
       THEN Fail("UnsupportedParentChain") /\ UNCHANGED logsQuery
       ELSE /\ logsQuery' = Some(LogsQuery(a.rollup, Get(validateParentChain(a.chain))))
            /\ pc' = "awaitLogs"
            /\ UNCHANGED outcome
  /\ UNCHANGED <<logs, txHash, buildVars, trackVars>>

\* getLogs resolves with events
LogsReturn(events) ==
  /\ pc = "awaitLogs"
  /\ logs' = events
  /\ IF EventCountUnexpected(events)
       THEN Fail("UnexpectedEventCount") /\ UNCHANGED txHash
     ELSE IF ~IsSome(events[1].transactionHash)
       THEN Fail("MissingTransactionHash") /\ UNCHANGED txHash
     ELSE /\ txHash' = events[1].transactionHash
          /\ pc' = "done" /\ outcome' = "ok"
  /\ UNCHANGED <<op, resolveArgs, logsQuery, buildVars, trackVars>>

----------------------------------------------------------------------------
(* waitForRetryables *)

\* the retryableCreationId of the i-th message derived from the receipt
MessageLists == {[i \in 1..n |-> i] : n \in 0..MaxTickets}

\* L1ToL2MessageStatus values waitForStatus resolves with
TerminalStatuses == {"CREATION_FAILED", "FUNDS_DEPOSITED_ON_L2", "REDEEMED", "EXPIRED"}

Pending == [state |-> "pending", status |-> "NOT_YET_CREATED", l2TxReceipt |-> None]

\* what waitForStatus of message m resolves with: the l2TxReceipt comes with
\* the REDEEMED status only
WaitResult(m, status) ==
  [state |-> "fulfilled", status |-> status,
   l2TxReceipt |-> IF status = "REDEEMED" THEN Some([format |-> "ethers", ticket |-> m]) ELSE None]

Rejected == [state |-> "rejected", status |-> "NOT_YET_CREATED", l2TxReceipt |-> None]

ethersTransactionReceiptToViemTransactionReceipt(r) == [format |-> "viem", ticket |-> r.ticket]

\* messages.map((message) => message.waitForStatus()): every wait is started
StartWaits(ms) == [i \in 1..Len(ms) |-> Pending]

\* Promise.any: fulfilled as soon as one promise is
AllFulfilled_Any(ws) == Len(ws) = 0 \/ \E i \in 1..Len(ws) : ws[i].state = "fulfilled"

\* Promise.all is fulfilled once every promise is
AllFulfilled(ws) == \A i \in 1..Len(ws) : ws[i].state = "fulfilled"

\* only an empty result is refused: the first of several tickets is checked
TicketCountUnexpected_Empty(results) == Len(results) = 0

TicketCountUnexpected(results) == Len(results) # 1

TicketRedeemed(result) == result.status = "REDEEMED"

\* the call, up to its await of getL1ToL2Messages
TrackStart ==
  /\ pc = "idle"
  /\ op' = "track"
  /\ pc' = "awaitMessages"
  /\ UNCHANGED <<outcome, buildVars, resolveVars, trackVars>>

\* getL1ToL2Messages resolves with ms; the waits are started and awaited
MessagesReturn(ms) ==
  /\ pc = "awaitMessages"
  /\ messages' = Some(ms)
  /\ waits' = StartWaits(ms)
  /\ pc' = "awaitAll"
  /\ UNCHANGED <<op, outcome, checksRun, receipts, buildVars, resolveVars>>

\* the waitForStatus of message i resolves
WaitFulfil(i, status) ==
  /\ op = "track"
  /\ i \in 1..Len(waits)
  /\ waits[i].state = "pending"
  /\ waits' = [waits EXCEPT ![i] = WaitResult(Get(messages)[i], status)]
  /\ UNCHANGED <<op, pc, outcome, messages, checksRun, receipts, buildVars, resolveVars>>

\* the waitForStatus of message i rejects: a Promise.all still awaited
\* rejects with it
WaitReject(i) ==
  /\ op = "track"
  /\ i \in 1..Len(waits)
  /\ waits[i].state = "pending"
  /\ waits' = [waits EXCEPT ![i] = Rejected]
  /\ IF pc = "awaitAll" THEN Fail("WaitFailure") ELSE UNCHANGED <<pc, outcome>>
  /\ UNCHANGED <<op, messages, checksRun, receipts, buildVars, resolveVars>>

\* the Promise.all is fulfilled: the code after it runs
Join ==
  /\ pc = "awaitAll"
  /\ AllFulfilled(waits)
  /\ checksRun' = TRUE
  /\ IF TicketCountUnexpected(waits)
       THEN Fail("UnexpectedTicketCount") /\ UNCHANGED receipts
     ELSE IF ~TicketRedeemed(waits[1])
       THEN Fail("TicketNotRedeemed") /\ UNCHANGED receipts
     \* converting a result that carries no l2TxReceipt reads a field of undefined
     ELSE IF \E i \in 1..Len(waits) : ~IsSome(waits[i].l2TxReceipt)
       THEN Fail("TypeError") /\ UNCHANGED receipts
     ELSE /\ receipts' = [i \in 1..Len(waits) |->
                            ethersTransactionReceiptToViemTransactionReceipt(Get(waits[i].l2TxReceipt))]
          /\ pc' = "done" /\ outcome' = "ok"
  /\ UNCHANGED <<op, messages, waits, buildVars, resolveVars>>

----------------------------------------------------------------------------

\* a pending RPC call (decimals read, prepareTransactionRequest, getLogs,
\* message derivation) rejects: the failure is passed through
RpcFailure ==
  /\ pc \in {"awaitDecimals", "awaitPrepare", "awaitLogs", "awaitMessages"}
  /\ Fail("RpcFailure")
  /\ UNCHANGED <<op, buildVars, resolveVars, trackVars>>

Init ==
  /\ op = "none"
  /\ pc = "idle"
  /\ outcome = "pending"
  /\ args = NoArgs
  /\ decimalsReads = 0
  /\ decimals = None
  /\ prepareCalls = 0
  /\ prepareGasArg = None
  /\ prepared = None
  /\ request = None
  /\ resolveArgs = None
  /\ logsQuery = None
  /\ logs = <<>>
  /\ txHash = None
  /\ messages = None
  /\ waits = <<>>
  /\ checksRun = FALSE
  /\ receipts = <<>>

Next ==
  \/ pc = "idle" /\ \E a \in BuildArgs : BuildStart(a)
  \/ \E d \in DecimalsValues : DecimalsReturn(d)
  \/ \E g \in {None} \cup {Some(x) : x \in GasAmounts} : PrepareReturn(g)
  \/ \E a \in ResolveArgs : ResolveStart(a)
  \/ \E events \in LogLists : LogsReturn(events)
  \/ TrackStart
  \/ \E ms \in MessageLists : MessagesReturn(ms)
  \/ \E i \in 1..MaxTickets, status \in TerminalStatuses : WaitFulfil(i, status)
  \/ \E i \in 1..MaxTickets : WaitReject(i)
  \/ Join
  \/ RpcFailure

Spec == Init /\ [][Next]_vars

----------------------------------------------------------------------------
(* Properties *)

BuildDone == op = "build" /\ pc = "done"

ValidatorSetBad(vs) == vs = <<>> \/ \E i \in 1..Len(vs) : vs[i] = zeroAddress

\* the network, batch-poster and validator checks pass and the chain config parses
ReachesFeeTokenChecks ==
  /\ args.chain \in SupportedNetworks
  /\ args.batchPoster # zeroAddress
  /\ ~ValidatorSetBad(args.validators)
  /\ args.chainConfig \in {AnyTrustJson, RollupJson}

FeeTokenErrors == {"FeeTokenNotSupported", "UnsupportedFeeTokenDecimals"}

\* C1: for a call that reaches the fee-token checks: a non-zero fee token with
\* a non-AnyTrust config fails with FeeTokenNotSupported; with an AnyTrust
\* config and a decimals read other than 18 it fails with
\* UnsupportedFeeTokenDecimals; with 18 decimals neither error is raised and the
\* call returns a transaction request (unless the RPC client fails or no gas
\* base is available); with the zero fee token no decimals read is made and
\* neither error is raised.
C1_FeeTokenChecks ==
  (BuildDone /\ ReachesFeeTokenChecks) =>
    /\ (args.nativeToken # zeroAddress /\ args.chainConfig = RollupJson) =>
         (outcome = "FeeTokenNotSupported" /\ request = None)
    /\ (args.nativeToken # zeroAddress /\ args.chainConfig = AnyTrustJson
        /\ IsSome(decimals) /\ Get(decimals) # 18) =>
         (outcome = "UnsupportedFeeTokenDecimals" /\ request = None)
    /\ (args.nativeToken # zeroAddress /\ args.chainConfig = AnyTrustJson
        /\ decimals = Some(18)) =>
         /\ outcome \notin FeeTokenErrors
         /\ outcome \notin {"RpcFailure", "MissingGasBase"} => (outcome = "ok" /\ IsSome(request))
    /\ args.nativeToken = zeroAddress =>
         (decimalsReads = 0 /\ outcome \notin FeeTokenErrors)

C1_Witness ==
  /\ BuildDone /\ ReachesFeeTokenChecks
  /\ args.nativeToken # zeroAddress /\ args.chainConfig = AnyTrustJson
  /\ decimals = Some(18) /\ outcome = "ok" /\ IsSome(request)

\* r is b + floor(b * p / 100)
IsFloorIncrease(r, b, p) ==
  /\ IsSome(r)
  /\ 100 * (Get(r) - b) <= b * p
  /\ b * p < 100 * (Get(r) - b) + 100

GasLimitGiven == IsSome(args.gasOverrides) /\ IsSome(Get(args.gasOverrides).gasLimit)
GasLimitGivenValue == Get(Get(args.gasOverrides).gasLimit)

\* C2: prepareTransactionRequest is given gas = 0 exactly when a base override
\* is supplied (0 included), and no gas otherwise; the returned gas is
\* B + floor(B*P/100) for the estimate B when overrides come without a base,
\* O + floor(O*P/100) for a base override O whatever the RPC client answered,
\* and the gas of the RPC client's answer, unchanged, without gas overrides.
C2_GasOverrideLaw ==
  /\ (op = "build" /\ prepareCalls > 0) =>
       prepareGasArg = (IF GasLimitGiven /\ IsSome(GasLimitGivenValue.base) THEN Some(0) ELSE None)
  /\ (BuildDone /\ outcome = "ok") =>
       IF ~GasLimitGiven THEN Get(request).gas = Get(prepared).gas
       ELSE IF IsSome(GasLimitGivenValue.base)
         THEN IsFloorIncrease(Get(request).gas, Get(GasLimitGivenValue.base),
                              GasLimitGivenValue.percentIncrease)
         ELSE IsFloorIncrease(Get(request).gas, Get(Get(prepared).gas),
                              GasLimitGivenValue.percentIncrease)

\* a base override of 7 with 15 percent gives 8, though the RPC client answered 14
C2_Witness ==
  /\ BuildDone /\ outcome = "ok" /\ GasLimitGiven
  /\ GasLimitGivenValue.base = Some(7) /\ GasLimitGivenValue.percentIncrease = 15
  /\ prepareGasArg = Some(0)
  /\ Get(prepared).gas = Some(14)
  /\ Get(request).gas = Some(8)

\* C3: gas overrides without a base, and an answer of prepareTransactionRequest
\* without gas: the call fails with MissingGasBase and returns no request; a
\* request returned with gas overrides always carries a gas value.
C3_MissingGasBase ==
  /\ (BuildDone /\ IsSome(prepared) /\ GasLimitGiven
      /\ ~IsSome(GasLimitGivenValue.base) /\ ~IsSome(Get(prepared).gas)) =>
       (outcome = "MissingGasBase" /\ request = None)
  /\ (BuildDone /\ outcome = "ok" /\ GasLimitGiven) => IsSome(Get(request).gas)

C3_Witness ==
  /\ BuildDone /\ IsSome(prepared) /\ GasLimitGiven
  /\ ~IsSome(GasLimitGivenValue.base) /\ ~IsSome(Get(prepared).gas)
  /\ outcome = "MissingGasBase"

TrackSettled == op = "track" /\ pc = "done" /\ outcome \notin {"RpcFailure", "WaitFailure"}

\* C4: once every wait has resolved: one ticket, redeemed, gives exactly the
\* receipt of its redemption; one ticket with another status fails with
\* TicketNotRedeemed; zero or several tickets fail with UnexpectedTicketCount;
\* a successful return has no unredeemed ticket.
C4_TrackOutcome ==
  /\ TrackSettled =>
       /\ (Len(waits) = 1 /\ waits[1].status = "REDEEMED") =>
            /\ outcome = "ok"
            /\ receipts = <<[format |-> "viem", ticket |-> Get(messages)[1]]>>
       /\ (Len(waits) = 1 /\ waits[1].status # "REDEEMED") =>
            (outcome = "TicketNotRedeemed" /\ receipts = <<>>)
       /\ Len(waits) # 1 => (outcome = "UnexpectedTicketCount" /\ receipts = <<>>)
  /\ (op = "track" /\ outcome = "ok") =>
       /\ Len(receipts) = 1
       /\ \A i \in 1..Len(waits) : waits[i].status = "REDEEMED"

C4_Witness ==
  /\ TrackSettled /\ Len(waits) = 1 /\ waits[1].status = "REDEEMED"
  /\ outcome = "ok" /\ Len(receipts) = 1

ResolveSettled ==
  op = "resolve" /\ pc = "done" /\ outcome \notin {"RpcFailure", "UnsupportedParentChain"}

\* C5: exactly one event (carrying a transaction hash) returns that hash; zero
\* or several events fail with UnexpectedEventCount and return no hash.
C5_ResolveOutcome ==
  ResolveSettled =>
    /\ (Len(logs) = 1 /\ IsSome(logs[1].transactionHash)) =>
         (outcome = "ok" /\ txHash = logs[1].transactionHash)
    /\ Len(logs) # 1 => (outcome = "UnexpectedEventCount" /\ txHash = None)

C5_Witness ==
  /\ ResolveSettled /\ Len(logs) = 1 /\ outcome = "ok" /\ txHash = Some("0xT2")

\* C6: on a supported parent chain a zero batch poster fails with
\* InvalidBatchPoster, whatever the validators, fee token, chain config and gas
\* overrides are.
C6_InvalidBatchPoster ==
  (BuildDone /\ args.chain \in SupportedNetworks /\ args.batchPoster = zeroAddress) =>
    (outcome = "InvalidBatchPoster" /\ request = None)

C6_Witness ==
  /\ BuildDone /\ args.chain \in SupportedNetworks /\ args.batchPoster = zeroAddress
  /\ args.validators = <<>> /\ args.nativeToken # zeroAddress
  /\ args.chainConfig = MalformedJson /\ IsSome(args.gasOverrides)
  /\ outcome = "InvalidBatchPoster"

\* C7: with the network and batch-poster checks passed, a validator list that
\* is empty or holds the zero address at any position fails with
\* InvalidValidatorSet.
C7_InvalidValidatorSet ==
  (BuildDone /\ args.chain \in SupportedNetworks /\ args.batchPoster # zeroAddress
   /\ ValidatorSetBad(args.validators)) =>
    (outcome = "InvalidValidatorSet" /\ request = None)

C7_Witness ==
  /\ BuildDone /\ args.chain \in SupportedNetworks /\ args.batchPoster # zeroAddress
  /\ args.validators = <<"0xA1", zeroAddress>>
  /\ outcome = "InvalidValidatorSet"

\* C8: the getLogs query is restricted to the rollup address, ends at 'latest',
\* and starts at the tabulated block of the client's network (0 for the local
\* test networks) or at 'earliest' when the network is not tabulated.
C8_ScanBounds ==
  (op = "resolve" /\ IsSome(logsQuery)) =>
    LET q == Get(logsQuery)
        a == Get(resolveArgs)
    IN /\ q.address = a.rollup
       /\ q.toBlock.tag = "latest"
       /\ a.chain \in TabulatedNetworks =>
            /\ q.fromBlock.tag = "number"
            /\ q.fromBlock.number = earliestRollupCreatorDeploymentBlockNumber[a.chain]
       /\ a.chain \in {"nitroTestnodeL1", "nitroTestnodeL2"} =>
            (q.fromBlock.tag = "number" /\ q.fromBlock.number = 0)
       /\ a.chain = "mainnet" => q.fromBlock.number = 18736164
       /\ a.chain \notin TabulatedNetworks => q.fromBlock.tag = "earliest"

C8_Witness ==
  /\ op = "resolve" /\ IsSome(logsQuery) /\ Get(resolveArgs).chain = "nitroTestnodeL1"
  /\ Get(logsQuery).fromBlock = [tag |-> "number", number |-> 0]

\* C9: every message has its wait started as soon as the messages are known;
\* the checks after the join run, and their outcomes are reported, only with
\* every wait resolved; a rejected wait fails the operation with that failure,
\* without receipts and without the checks having run.
C9_JoinBeforeChecks ==
  op = "track" =>
    /\ IsSome(messages) => Len(waits) = Len(Get(messages))
    /\ (checksRun \/ outcome \in {"ok", "UnexpectedTicketCount", "TicketNotRedeemed"}) =>
         \A i \in 1..Len(waits) : waits[i].state = "fulfilled"
    /\ (\E i \in 1..Len(waits) : waits[i].state = "rejected") =>
         (outcome = "WaitFailure" /\ receipts = <<>> /\ ~checksRun)

C9_Witness ==
  /\ op = "track" /\ Len(waits) = 2
  /\ waits[1].state = "fulfilled" /\ waits[2].state = "rejected"
  /\ outcome = "WaitFailure"

ValidationErrors ==
  {"UnsupportedParentChain", "InvalidBatchPoster", "InvalidValidatorSet",
   "FeeTokenNotSupported", "UnsupportedFeeTokenDecimals"}

\* C10: at most one decimals read, and only for a non-zero fee token;
\* prepareTransactionRequest is issued only with every validation check passed,
\* and never in a run that fails validation.
C10_EagerValidation ==
  op = "build" =>
    /\ decimalsReads <= 1
    /\ decimalsReads = 1 => args.nativeToken # zeroAddress
    /\ prepareCalls > 0 =>
         /\ ReachesFeeTokenChecks
         /\ args.nativeToken # zeroAddress =>
              (args.chainConfig = AnyTrustJson /\ decimals = Some(18))
    /\ outcome \in ValidationErrors => prepareCalls = 0

C10_Witness ==
  /\ op = "build" /\ outcome = "UnsupportedFeeTokenDecimals"
  /\ decimalsReads = 1 /\ prepareCalls = 0

====
